---- MODULE Spec2Model ----
(***************************************************************************)
(* GitHubMonitorPlugin (src/plugin.py): the polling loop monitor_loop, the *)
(* fetcher get_latest_commits and the dispatcher broadcast_notification,   *)
(* as one state machine.  The monitor task is a single asyncio task: every *)
(* action below runs the code from one suspension point (await) to the     *)
(* next, which is the granularity at which the task can be cancelled.      *)
(***************************************************************************)
EXTENDS Integers, Sequences, FiniteSets, TLC

(***************************************************************************)
(* Bounds of the model.                                                    *)
(***************************************************************************)
MaxId == 3        \* revision ids of arbitrary fetch results are 1..MaxId
MaxLen == 3       \* longest list an arbitrary fetch returns
MaxHead == 4      \* longest branch history (SpecHist)
MaxWin == 3       \* longest fetch window over the history (SpecHist)
MaxRevs == 3      \* newest revision id of the fetches of SpecNotify
MaxFaultLen == 2  \* longest list with malformed records (SpecFaults)
MaxReloadHead == 2  \* longest branch history under reconfiguration (SpecReload)

VARIABLES
    pc,            \* position of the monitor task (the await it is suspended at)
    config,        \* the configuration store read by get_config
    chat,          \* the collaborators: resolvable groups, send and generator outcomes
    head,          \* per target key: length of the branch history (revisions 1..head)
    repo_states,   \* self.repo_states: key -> last seen sha
    repos,         \* monitor_loop: repos (snapshot read at cycle start)
    interval,      \* monitor_loop: interval (read at cycle start)
    token,         \* monitor_loop: token (read at cycle start)
    idx,           \* monitor_loop: position of repo_conf in repos
    repo_key,      \* monitor_loop: repo_key of the target being processed
    commits,       \* monitor_loop: result of get_latest_commits
    new_items,     \* monitor_loop: new_items
    item,          \* monitor_loop: position of item in reversed(new_items)
    subscribers,   \* broadcast_notification: subscribers
    enable_ai,     \* broadcast_notification: enable_ai
    sub,           \* broadcast_notification: position of sub in subscribers
    ai_comment,    \* broadcast_notification: ai_comment
    batch,         \* history: the fetch the current target processing started from
    dispatched,    \* history: the shas broadcast_notification was called with in this batch
    notif,         \* history: the events of the broadcast_notification call under way
    first,         \* history: key -> the sha stored at the first sight of the key
    top,           \* history: key -> the newest sha of the key's last non-empty fetched list
    announced,     \* history: <<key, sha>> of every broadcast_notification call so far
    sent,          \* history: <<key, sha, sub>> of every base-message send call so far
    read,          \* history: what the cycle under way read of the configuration
    logged         \* history: the log entries written by the last step

vars == <<pc, config, chat, head, repo_states, repos, interval, token, idx, repo_key,
          commits, new_items, item, subscribers, enable_ai, sub, ai_comment,
          batch, dispatched, notif, first, top, announced, sent, read, logged>>

loopVars == <<repos, interval, token, idx, repo_key, commits, new_items, item>>
bnVars == <<subscribers, enable_ai, sub, ai_comment>>
envVars == <<config, chat, head>>
histVars == <<batch, dispatched, notif, first, top, announced, sent, read>>

(***************************************************************************)
(* Values.                                                                 *)
(***************************************************************************)
NoSha == 0                     \* a record without the 'sha' field

\* What get_latest_commits returns: None, a JSON list of records, or a JSON
\* value that is not a list (an object such as {"message": ...}).
NoneValue == [kind |-> "none", items |-> <<>>]
ListValue(s) == [kind |-> "list", items |-> s]
NonListValue == [kind |-> "nonlist", items |-> <<>>]

\* A fetched record: its 'sha' (NoSha when the field is missing) and whether
\* it has commit.author.name and commit.message.
Commit(s) == [sha |-> s, commit |-> TRUE]

Injective(s) == \A a, b \in DOMAIN s : s[a] = s[b] => a = b
Reverse(s) == [i \in 1..Len(s) |-> s[Len(s) + 1 - i]]

\* Repository entries of monitor.repositories.
T1 == [owner |-> "o1", repo |-> "r1", branch |-> "master"]
T2 == [owner |-> "o2", repo |-> "r2", branch |-> "main"]
NoOwner == [owner |-> "", repo |-> "r3", branch |-> "master"]
\* Subscriber entries of monitor.subscribers.
G1 == [group_id |-> "g1", platform |-> "qq"]
G2 == [group_id |-> "g2", platform |-> "qq"]
G3 == [group_id |-> "g3", platform |-> "wechat"]
NoGroup == [group_id |-> "", platform |-> "qq"]

\* repo_key = f"{owner}/{repo_name}/{branch}" (injective on names without '/').
RepoKey(conf) == <<conf.owner, conf.repo, conf.branch>>
Keys == {RepoKey(T1), RepoKey(T2)}

\* f with k mapped to v (the history variables' bookkeeping)
Put(f, k, v) == [x \in DOMAIN f \cup {k} |-> IF x = k THEN v ELSE f[x]]

\* A log entry: its level and the target or group it names.
Log(level, about) == [level |-> level, about |-> about]

(***************************************************************************)
(* get_latest_commits (lines 139-162): status 200 returns the parsed body, *)
(* every other status and every exception (transport, timeout, invalid     *)
(* JSON: status "error") returns None.                                     *)
(***************************************************************************)
GetLatestCommits(resp) ==
    IF resp.status = "200" THEN resp.body ELSE NoneValue

FetchLog(resp, key) ==
    CASE resp.status = "200" -> Log("debug", key)
      [] resp.status = "403" -> Log("warning", key)
      [] OTHER -> Log("error", key)

FailedResponses == {[status |-> st, body |-> NoneValue] : st \in {"403", "404", "500", "error"}}

(***************************************************************************)
(* The diff of monitor_loop (lines 196-219).                               *)
(***************************************************************************)
\* line 196: not commits or not isinstance(commits, list) or len(commits) == 0
NoData(c) == c.kind # "list" \/ Len(c.items) = 0

\* mutant: the last (oldest) record is taken for the newest
OldestSha(cs) == cs[Len(cs)].sha

\* line 199: current_latest_sha = commits[0]['sha']
CurrentLatestSha(cs) == cs[1].sha

\* lines 209-215: the records before the first one whose sha is last_sha
RECURSIVE Scan(_, _, _)
Scan(cs, last_sha, i) ==
    IF i > Len(cs) \/ cs[i].sha = last_sha
    THEN <<>>
    ELSE <<cs[i]>> \o Scan(cs, last_sha, i + 1)

\* mutant: the scan does not stop at the stored sha
NewItemsAll(cs, last_sha) == cs

\* mutant: a baseline that is not found announces the newest record only
NewItemsNewestOnly(cs, last_sha) ==
    IF \E i \in DOMAIN cs : cs[i].sha = last_sha THEN Scan(cs, last_sha, 1) ELSE <<cs[1]>>

NewItems(cs, last_sha) == Scan(cs, last_sha, 1)

\* commit['sha'] raises KeyError on a record without the field (lines 199, 212);
\* the scan reads the sha of every record up to and including the match.
ScanRaises(cs, last_sha) ==
    LET n == Len(NewItems(cs, last_sha))
    IN  \E i \in 1..(IF n < Len(cs) THEN n + 1 ELSE n) : cs[i].sha = NoSha

\* mutant: the new items are delivered in fetch order (newest first)
Unreversed(items) == items

\* line 222: for item in reversed(new_items)
Reversed(items) == Reverse(items)

\* mutant: the assignment of line 219 is missing (only first sight stores)
SetStateOnce(states, key, sha) ==
    IF key \in DOMAIN states
    THEN states
    ELSE [k \in DOMAIN states \cup {key} |-> IF k = key THEN sha ELSE states[k]]

\* mutant: the assignment replaces the mapping by the one entry
SetStateOnly(states, key, sha) == [k \in {key} |-> sha]

\* lines 203, 219: self.repo_states[repo_key] = current_latest_sha
SetState(states, key, sha) ==
    [k \in DOMAIN states \cup {key} |-> IF k = key THEN sha ELSE states[k]]

\* The seconds of the asyncio.sleep the task is suspended in (0: in none):
\* lines 169, 180 and 231, 224 and 228.
SleepSeconds ==
    CASE pc = "warmup" -> 10
      [] pc \in {"idle_sleep", "interval_sleep"} -> interval
      [] pc \in {"msg_sleep", "target_sleep"} -> 1
      [] OTHER -> 0

\* The request get_latest_commits has in flight at pc = "fetching" (lines
\* 141-147): the branch asked for and the token of the Authorization header.
RequestSent == [key |-> repo_key, authorization |-> token]

\* The awaits of the monitor task: the points where it can be cancelled.
AwaitPcs == {"warmup", "idle_sleep", "fetching", "bn_send", "bn_gen", "bn_send2",
             "msg_sleep", "target_sleep", "interval_sleep"}

(***************************************************************************)
(* Initial state: __init__ (lines 121-133) with plugin.enable true; the    *)
(* task is created and waits in the warm-up sleep.                         *)
(***************************************************************************)
InitTask ==
    /\ pc = "warmup"
    /\ repo_states = <<>>
    /\ repos = <<>>
    /\ interval = 0
    /\ token = ""
    /\ idx = 0
    /\ repo_key = <<>>
    /\ commits = NoneValue
    /\ new_items = <<>>
    /\ item = 0
    /\ subscribers = <<>>
    /\ enable_ai = TRUE
    /\ sub = 0
    /\ ai_comment = ""
    /\ batch = [key |-> <<>>, before |-> <<>>, fetched |-> NoneValue, repeat |-> FALSE]
    /\ first = <<>>
    /\ top = <<>>
    /\ dispatched = <<>>
    /\ notif = <<>>
    /\ announced = {}
    /\ sent = {}
    /\ read = [repositories |-> <<>>, interval |-> 0, token |-> "", before |-> <<>>,
               requested |-> {}]
    /\ logged = {}

\* get_config("monitor.enable_commentary", True) (line 248): the key is not in
\* config_schema (which defines global.enable_commentary, lines 54-58), so it
\* has a value only if the configuration file was given one by hand.
EnableAi(cfg) ==
    IF cfg.monitor_enable_commentary = "unset" THEN TRUE
    ELSE cfg.monitor_enable_commentary = "true"

(***************************************************************************)
(* monitor_loop (lines 164-231).                                           *)
(***************************************************************************)
\* history: what lines 173-175 read of the configuration cfg, the list read by
\* the cycle before (prev), and no key requested yet
CycleRead(cfg, prev) ==
    [repositories |-> cfg.repositories, interval |-> cfg.interval, token |-> cfg.token,
     before |-> prev.repositories, requested |-> {}]

\* line 169: the warm-up sleep ends
WarmUp ==
    /\ pc = "warmup"
    /\ pc' = "cycle"
    /\ logged' = {}
    /\ UNCHANGED <<envVars, repo_states, loopVars, bnVars,
                   histVars>>

\* lines 173-181: the configuration is read; no repositories: stand by
StandBy ==
    /\ pc = "cycle"
    /\ config.repositories = <<>>
    /\ interval' = config.interval
    /\ token' = config.token
    /\ repos' = config.repositories
    /\ read' = CycleRead(config, read)
    /\ pc' = "idle_sleep"
    /\ logged' = {Log("warning", "repositories")}
    /\ UNCHANGED <<envVars, repo_states, idx, repo_key, commits, new_items, item, bnVars,
                   batch, dispatched, notif, first, top, announced, sent>>

\* line 180: the stand-by sleep ends (continue)
IdleSleep ==
    /\ pc = "idle_sleep"
    /\ pc' = "cycle"
    /\ logged' = {}
    /\ UNCHANGED <<envVars, repo_states, loopVars, bnVars,
                   histVars>>

\* mutant: interval and token are read once, by the first cycle, and kept
BeginCycleCached ==
    /\ pc = "cycle"
    /\ config.repositories # <<>>
    /\ interval' = IF interval = 0 THEN config.interval ELSE interval
    /\ token' = IF interval = 0 THEN config.token ELSE token
    /\ repos' = config.repositories
    /\ read' = CycleRead(config, read)
    /\ idx' = 1
    /\ pc' = "target"
    /\ logged' = {}
    /\ UNCHANGED <<envVars, repo_states, repo_key, commits, new_items, item, bnVars,
                   batch, dispatched, notif, first, top, announced, sent>>

\* lines 173-183: the configuration is read and the for loop starts
BeginCycle ==
    /\ pc = "cycle"
    /\ config.repositories # <<>>
    /\ interval' = config.interval
    /\ token' = config.token
    /\ repos' = config.repositories
    /\ read' = CycleRead(config, read)
    /\ idx' = 1
    /\ pc' = "target"
    /\ logged' = {}
    /\ UNCHANGED <<envVars, repo_states, repo_key, commits, new_items, item, bnVars,
                   batch, dispatched, notif, first, top, announced, sent>>

\* lines 185-190: an entry without owner or repo is passed over
SkipTarget ==
    /\ pc = "target"
    /\ idx <= Len(repos)
    /\ repos[idx].owner = "" \/ repos[idx].repo = ""
    /\ idx' = idx + 1
    /\ logged' = {}
    /\ UNCHANGED <<pc, envVars, repo_states, repos, interval, token, repo_key, commits, new_items,
                   item, bnVars, histVars>>

\* lines 185-195: the key is built and the request is issued
Request ==
    /\ pc = "target"
    /\ idx <= Len(repos)
    /\ repos[idx].owner # "" /\ repos[idx].repo # ""
    /\ repo_key' = RepoKey(repos[idx])
    /\ read' = [read EXCEPT !.requested = @ \cup {RepoKey(repos[idx])}]
    /\ pc' = "fetching"
    /\ logged' = {}
    /\ UNCHANGED <<envVars, repo_states, repos, interval, token, idx, commits, new_items,
                   item, bnVars, batch, dispatched, notif, first, top, announced, sent>>

\* line 195: get_latest_commits returns for the response resp
Receive(resp) ==
    /\ pc = "fetching"
    /\ commits' = GetLatestCommits(resp)
    /\ batch' = [key |-> repo_key,
                 before |-> repo_states,
                 fetched |-> GetLatestCommits(resp),
                 repeat |-> batch.key = repo_key /\ batch.fetched = GetLatestCommits(resp)]
    /\ top' = IF resp.status = "200" /\ resp.body.kind = "list" /\ resp.body.items # <<>>
              THEN Put(top, repo_key, resp.body.items[1].sha)
              ELSE top
    /\ dispatched' = <<>>
    /\ pc' = "diff"
    /\ logged' = {FetchLog(resp, repo_key)}
    /\ UNCHANGED <<envVars, repo_states, repos, interval, token, idx, repo_key, new_items, item,
                   bnVars, notif, first, announced, sent, read>>

\* mutant: a fetch without data forgets the target's entry
EmptyForgets ==
    /\ pc = "diff"
    /\ NoData(commits)
    /\ repo_states' = [k \in DOMAIN repo_states \ {repo_key} |-> repo_states[k]]
    /\ idx' = idx + 1
    /\ pc' = "target"
    /\ logged' = {}
    /\ UNCHANGED <<envVars, repos, interval, token, repo_key, commits, new_items, item,
                   bnVars, histVars>>

\* lines 196-197: nothing usable was fetched (continue)
Empty ==
    /\ pc = "diff"
    /\ NoData(commits)
    /\ idx' = idx + 1
    /\ pc' = "target"
    /\ logged' = {}
    /\ UNCHANGED <<envVars, repo_states, repos, interval, token, repo_key, commits, new_items, item,
                   bnVars, histVars>>

\* lines 199, 212: KeyError on a record without 'sha' ends the task
ShaKeyError ==
    /\ pc = "diff"
    /\ ~NoData(commits)
    /\ \/ commits.items[1].sha = NoSha
       \/ /\ repo_key \in DOMAIN repo_states
          /\ CurrentLatestSha(commits.items) # repo_states[repo_key]
          /\ ScanRaises(commits.items, repo_states[repo_key])
    /\ pc' = "crashed"
    /\ logged' = {}
    /\ UNCHANGED <<envVars, repo_states, loopVars, bnVars,
                   histVars>>

\* mutant: first sight is handled as a lost baseline (everything is new)
FirstSightAnnounces ==
    /\ pc = "diff"
    /\ ~NoData(commits)
    /\ repo_key \notin DOMAIN repo_states
    /\ repo_states' = SetState(repo_states, repo_key, CurrentLatestSha(commits.items))
    /\ first' = Put(first, repo_key, repo_states'[repo_key])
    /\ new_items' = commits.items
    /\ item' = 1
    /\ pc' = "notify"
    /\ logged' = {Log("info", repo_key)}
    /\ UNCHANGED <<envVars, repos, interval, token, idx, repo_key, commits, bnVars,
                   read, batch, dispatched, notif, top, announced, sent>>

\* lines 199-204: first sight of the key
FirstSight ==
    /\ pc = "diff"
    /\ ~NoData(commits)
    /\ commits.items[1].sha # NoSha
    /\ repo_key \notin DOMAIN repo_states
    /\ repo_states' = SetState(repo_states, repo_key, CurrentLatestSha(commits.items))
    /\ first' = Put(first, repo_key, repo_states'[repo_key])
    /\ pc' = "target_sleep"
    /\ logged' = {Log("info", repo_key)}
    /\ UNCHANGED <<envVars, loopVars, bnVars, read, batch, dispatched, notif, top, announced, sent>>

\* mutant: the newest sha is not stored before the deliveries start
UpdateWithoutStore ==
    /\ pc = "diff"
    /\ ~NoData(commits)
    /\ repo_key \in DOMAIN repo_states
    /\ CurrentLatestSha(commits.items) # repo_states[repo_key]
    /\ new_items' = NewItems(commits.items, repo_states[repo_key])
    /\ item' = 1
    /\ pc' = "notify"
    /\ logged' = {Log("debug", repo_key)}
    /\ UNCHANGED <<envVars, repo_states, repos, interval, token, idx, repo_key, commits,
                   bnVars, histVars>>

\* lines 206-222: new commits: scan, store the newest sha, start the deliveries
Update ==
    /\ pc = "diff"
    /\ ~NoData(commits)
    /\ commits.items[1].sha # NoSha
    /\ repo_key \in DOMAIN repo_states
    /\ CurrentLatestSha(commits.items) # repo_states[repo_key]
    /\ ~ScanRaises(commits.items, repo_states[repo_key])
    /\ new_items' = NewItems(commits.items, repo_states[repo_key])
    /\ repo_states' = SetState(repo_states, repo_key, CurrentLatestSha(commits.items))
    /\ item' = 1
    /\ pc' = "notify"
    /\ logged' = {Log("debug", repo_key)}
    /\ UNCHANGED <<envVars, repos, interval, token, idx, repo_key, commits, bnVars, histVars>>

\* lines 225-226: the newest sha is the stored one
NoNew ==
    /\ pc = "diff"
    /\ ~NoData(commits)
    /\ commits.items[1].sha # NoSha
    /\ repo_key \in DOMAIN repo_states
    /\ CurrentLatestSha(commits.items) = repo_states[repo_key]
    /\ pc' = "target_sleep"
    /\ logged' = {Log("debug", repo_key)}
    /\ UNCHANGED <<envVars, repo_states, loopVars, bnVars,
                   histVars>>

\* line 228: the pacing sleep after a target ends
TargetSleep ==
    /\ pc = "target_sleep"
    /\ idx' = idx + 1
    /\ new_items' = <<>>
    /\ item' = 0
    /\ pc' = "target"
    /\ logged' = {}
    /\ UNCHANGED <<envVars, repo_states, repos, interval, token, repo_key, commits, bnVars,
                   histVars>>

\* lines 183, 231: the for loop is exhausted; the interval sleep starts
EndCycle ==
    /\ pc = "target"
    /\ idx > Len(repos)
    /\ pc' = "interval_sleep"
    /\ logged' = {}
    /\ UNCHANGED <<envVars, repo_states, loopVars, bnVars,
                   histVars>>

\* line 231: the interval sleep ends
IntervalSleep ==
    /\ pc = "interval_sleep"
    /\ pc' = "cycle"
    /\ logged' = {}
    /\ UNCHANGED <<envVars, repo_states, loopVars, bnVars,
                   histVars>>

(***************************************************************************)
(* broadcast_notification (lines 233-317), called from line 223.           *)
(***************************************************************************)
Event(kind, dest, outcome) == [kind |-> kind, sub |-> dest, outcome |-> outcome]

\* lines 235-237: KeyError on a record without commit.author.name / commit.message
Renders(commit_item) == commit_item.sha # NoSha /\ commit_item.commit

\* lines 223, 233-251: the call for reversed(new_items)'s next item, up to the loop
Broadcast ==
    /\ pc = "notify"
    /\ dispatched' = Append(dispatched, Reversed(new_items)[item].sha)
    /\ announced' = announced \cup {<<repo_key, Reversed(new_items)[item].sha>>}
    /\ notif' = <<>>
    /\ logged' = {}
    /\ IF ~Renders(Reversed(new_items)[item])
       THEN /\ pc' = "crashed"
            /\ UNCHANGED bnVars
       ELSE /\ subscribers' = config.subscribers
            /\ enable_ai' = EnableAi(config)
            /\ ai_comment' = ""
            /\ IF config.subscribers = <<>>
               THEN pc' = "msg_sleep" /\ sub' = 0
               ELSE pc' = "bn_loop" /\ sub' = 1
    /\ UNCHANGED <<envVars, repo_states, loopVars, read, batch, first, top, sent>>

\* lines 254-258: an entry without group_id is passed over
SkipSubscriber ==
    /\ pc = "bn_loop"
    /\ sub <= Len(subscribers)
    /\ subscribers[sub].group_id = ""
    /\ sub' = sub + 1
    /\ logged' = {}
    /\ UNCHANGED <<pc, envVars, repo_states, loopVars, subscribers, enable_ai,
                   ai_comment, histVars>>

\* lines 260-264: no chat stream for the group
StreamNotFound ==
    /\ pc = "bn_loop"
    /\ sub <= Len(subscribers)
    /\ subscribers[sub].group_id # ""
    /\ subscribers[sub].group_id \notin chat.streams
    /\ notif' = Append(notif, Event("resolve", sub, "notfound"))
    /\ sub' = sub + 1
    /\ logged' = {Log("warning", subscribers[sub].group_id)}
    /\ UNCHANGED <<pc, envVars, repo_states, loopVars, subscribers, enable_ai,
                   ai_comment, read, batch, dispatched, first, top, announced, sent>>

\* mutant: the base send is started but not awaited (fire and forget)
SendBaseNoAwait ==
    /\ pc = "bn_loop"
    /\ sub <= Len(subscribers)
    /\ subscribers[sub].group_id # ""
    /\ subscribers[sub].group_id \in chat.streams
    /\ notif' = Append(notif, Event("base", sub, "call"))
    /\ sent' = sent \cup {<<repo_key, Reversed(new_items)[item].sha, sub>>}
    /\ ai_comment' = ""
    /\ sub' = sub + 1
    /\ logged' = {}
    /\ UNCHANGED <<pc, envVars, repo_states, loopVars, subscribers, enable_ai,
                   read, batch, dispatched, first, top, announced>>

\* lines 260-272: the stream is found and the base message is handed to send_api
SendBase ==
    /\ pc = "bn_loop"
    /\ sub <= Len(subscribers)
    /\ subscribers[sub].group_id # ""
    /\ subscribers[sub].group_id \in chat.streams
    /\ notif' = Append(notif, Event("base", sub, "call"))
    /\ sent' = sent \cup {<<repo_key, Reversed(new_items)[item].sha, sub>>}
    /\ ai_comment' = ""
    /\ pc' = "bn_send"
    /\ logged' = {}
    /\ UNCHANGED <<envVars, repo_states, loopVars, subscribers, enable_ai, sub,
                   read, batch, dispatched, first, top, announced>>

\* what follows a destination's last step: lines 277-279, 308-309 with no comment
NextSubscriber ==
    /\ sub' = sub + 1
    /\ ai_comment' = ""
    /\ pc' = "bn_loop"

\* mutant: the base send is not guarded by try/except (an exception ends the task)
BaseDoneUncaught(outcome) ==
    /\ pc = "bn_send"
    /\ outcome \in chat.send
    /\ notif' = Append(notif, Event("base", sub, outcome))
    /\ logged' = {}
    /\ IF outcome = "raise"
       THEN pc' = "crashed" /\ UNCHANGED <<sub, ai_comment>>
       ELSE IF enable_ai
            THEN pc' = "bn_gen" /\ UNCHANGED <<sub, ai_comment>>
            ELSE NextSubscriber
    /\ UNCHANGED <<envVars, repo_states, loopVars, subscribers, enable_ai,
                   read, batch, dispatched, first, top, announced, sent>>

\* lines 267-279: send_api returns or raises (caught, line 274)
BaseDone(outcome) ==
    /\ pc = "bn_send"
    /\ outcome \in chat.send
    /\ logged' = {Log(IF outcome = "ok" THEN "info" ELSE "error", subscribers[sub].group_id)}
    /\ IF enable_ai
       THEN /\ notif' = notif \o <<Event("base", sub, outcome), Event("generate", sub, "call")>>
            /\ pc' = "bn_gen"
            /\ UNCHANGED <<sub, ai_comment>>
       ELSE /\ notif' = Append(notif, Event("base", sub, outcome))
            /\ NextSubscriber
    /\ UNCHANGED <<envVars, repo_states, loopVars, subscribers, enable_ai,
                   read, batch, dispatched, first, top, announced, sent>>

\* mutant: the generator call is not guarded by try/except (an exception ends the task)
GenerateDoneUncaught(outcome) ==
    /\ pc = "bn_gen"
    /\ outcome \in chat.generate
    /\ logged' = {}
    /\ IF outcome = "raise"
       THEN /\ notif' = Append(notif, Event("generate", sub, outcome))
            /\ pc' = "crashed"
            /\ UNCHANGED <<sub, ai_comment>>
       ELSE IF outcome = "text"
            THEN /\ notif' = notif \o <<Event("generate", sub, outcome),
                                         Event("commentary", sub, "call")>>
                 /\ ai_comment' = "text"
                 /\ pc' = "bn_send2"
                 /\ UNCHANGED sub
            ELSE /\ notif' = Append(notif, Event("generate", sub, outcome))
                 /\ NextSubscriber
    /\ UNCHANGED <<envVars, repo_states, loopVars, subscribers, enable_ai,
                   read, batch, dispatched, first, top, announced, sent>>

\* lines 292-309: rewrite_reply returns (success, llm_response) or raises (caught)
\*   "text": (True, response with content)   "empty": (True, None)
\*   "failed": (False, None)                 "raise": an exception
GenerateDone(outcome) ==
    /\ pc = "bn_gen"
    /\ outcome \in chat.generate
    /\ logged' = CASE outcome = "text" -> {Log("info", subscribers[sub].group_id)}
                   [] outcome = "raise" -> {Log("error", "generator")}
                   [] OTHER -> {}
    /\ IF outcome = "text"
       THEN /\ notif' = notif \o <<Event("generate", sub, outcome),
                                    Event("commentary", sub, "call")>>
            /\ ai_comment' = "text"
            /\ pc' = "bn_send2"
            /\ UNCHANGED sub
       ELSE /\ notif' = Append(notif, Event("generate", sub, outcome))
            /\ NextSubscriber
    /\ UNCHANGED <<envVars, repo_states, loopVars, subscribers, enable_ai,
                   read, batch, dispatched, first, top, announced, sent>>

\* lines 308-317: the commentary send returns or raises (caught, line 316)
CommentDone(outcome) ==
    /\ pc = "bn_send2"
    /\ outcome \in chat.send
    /\ notif' = Append(notif, Event("commentary", sub, outcome))
    /\ logged' = IF outcome = "ok" THEN {} ELSE {Log("error", subscribers[sub].group_id)}
    /\ NextSubscriber
    /\ UNCHANGED <<envVars, repo_states, loopVars, subscribers, enable_ai,
                   read, batch, dispatched, first, top, announced, sent>>

\* line 253 exhausted: broadcast_notification returns; line 224's sleep starts
Return ==
    /\ pc = "bn_loop"
    /\ sub > Len(subscribers)
    /\ pc' = "msg_sleep"
    /\ logged' = {}
    /\ UNCHANGED <<envVars, repo_states, loopVars, bnVars,
                   histVars>>

\* lines 222-224: the sleep after a message ends; next item or end of the batch
MessageSleep ==
    /\ pc = "msg_sleep"
    /\ item' = item + 1
    /\ pc' = IF item < Len(new_items) THEN "notify" ELSE "target_sleep"
    /\ notif' = <<>>
    /\ logged' = {}
    /\ UNCHANGED <<envVars, repo_states, repos, interval, token, idx, repo_key, commits, new_items,
                   bnVars, read, batch, dispatched, first, top, announced, sent>>

\* lines 319-322: __del__ cancels the task; CancelledError is raised at the
\* await the task is suspended at and no handler of the loop catches it
Cancel ==
    /\ pc \in AwaitPcs
    /\ pc' = "cancelled"
    /\ logged' = {}
    /\ UNCHANGED <<envVars, repo_states, loopVars, bnVars,
                   histVars>>

(***************************************************************************)
(* The environment: what the revision source answers.                      *)
(***************************************************************************)
\* Lists of well-formed records with pairwise different ids, newest first by
\* position only (the ids carry no order here).
Lists ==
    {l \in UNION {[1..n -> {Commit(i) : i \in 1..MaxId}] : n \in 1..MaxLen} : Injective(l)}

Bodies == {NonListValue, ListValue(<<>>)} \cup {ListValue(l) : l \in Lists}

Responses == FailedResponses \cup {[status |-> "200", body |-> b] : b \in Bodies}

\* The poll of one repository with a rough delivery: an invalid entry before
\* the target; a subscriber without group_id, one whose stream is unknown and
\* one that resolves; sends that may raise; commentary that may fail.
Configs ==
    [repositories : {<<>>, <<NoOwner, T1>>},
     subscribers : {<<>>, <<NoGroup, G2, G1>>},
     global_enable_commentary : {TRUE},
     monitor_enable_commentary : {"unset"},
     interval : {60},
     token : {""}]

Chats == [streams : {{"g1"}}, send : {{"ok", "raise"}}, generate : {{"text", "failed"}}]

Init ==
    /\ InitTask
    /\ config \in Configs
    /\ chat \in Chats
    /\ head = [k \in Keys |-> 0]

Deliver ==
    \/ Broadcast
    \/ SkipSubscriber
    \/ StreamNotFound
    \/ SendBase
    \/ \E o \in {"ok", "raise"} : BaseDone(o)
    \/ \E o \in {"text", "empty", "failed", "raise"} : GenerateDone(o)
    \/ \E o \in {"ok", "raise"} : CommentDone(o)
    \/ Return
    \/ MessageSleep

Loop ==
    \/ WarmUp
    \/ StandBy
    \/ IdleSleep
    \/ BeginCycle
    \/ SkipTarget
    \/ Request
    \/ Empty
    \/ FirstSight
    \/ Update
    \/ NoNew
    \/ TargetSleep
    \/ EndCycle
    \/ IntervalSleep
    \/ Cancel

Next ==
    \/ Loop
    \/ Deliver
    \/ \E resp \in Responses : Receive(resp)

Spec == Init /\ [][Next]_vars

(***************************************************************************)
(* The environment of an append-only branch: the history of key k is the   *)
(* revisions 1..head[k], oldest first; a successful fetch answers a        *)
(* newest-first window of it, of any length up to MaxWin.                  *)
(***************************************************************************)
Min(a, b) == IF a < b THEN a ELSE b

Window(h, w) == [i \in 1..w |-> Commit(h + 1 - i)]

WindowResponses(h) ==
    FailedResponses
      \cup {[status |-> "200", body |-> ListValue(Window(h, w))] : w \in 0..Min(h, MaxWin)}

\* the keys of the configured repositories
Polled ==
    {RepoKey(config.repositories[i]) : i \in DOMAIN config.repositories} \cap Keys

\* a commit is pushed to the branch of key k
Push(k) ==
    /\ head[k] < MaxHead
    /\ head' = [head EXCEPT ![k] = @ + 1]
    /\ UNCHANGED <<pc, config, chat, repo_states, loopVars, bnVars, histVars, logged>>

\* line 195: the answer for the requested branch, as it stands now
ReceiveWindow ==
    /\ pc = "fetching"
    /\ \E resp \in WindowResponses(head[repo_key]) : Receive(resp)

HistConfigs ==
    [repositories : {<<>>, <<T1, NoOwner, T2>>},
     subscribers : {<<NoGroup, G2, G1>>},
     global_enable_commentary : {TRUE},
     monitor_enable_commentary : {"unset"},
     interval : {60},
     token : {""}]

HistChats == [streams : {{"g1"}}, send : {{"ok", "raise"}}, generate : {{"text"}}]

InitHist ==
    /\ InitTask
    /\ config \in HistConfigs
    /\ chat \in HistChats
    /\ head = [k \in Keys |-> 0]

NextHist ==
    \/ Loop
    \/ Deliver
    \/ ReceiveWindow
    \/ \E k \in Polled : Push(k)

SpecHist == InitHist /\ [][NextHist]_vars

(***************************************************************************)
(* Vocabulary of the properties: what the last fetch was, what the target  *)
(* had stored before it, and what the claims expect of its processing.     *)
(***************************************************************************)
Fetched == batch.fetched.items
NonEmptyFetch == batch.fetched.kind = "list" /\ Len(Fetched) > 0
Had == batch.key \in DOMAIN batch.before
Last == batch.before[batch.key]

\* the diff of the last fetch has run (its first step is taken at pc = "diff")
Processed == pc \notin {"diff", "crashed"}
\* between the call of broadcast_notification for a batch's first item and
\* the end of the sleep after its last item
Delivering == pc \in {"notify", "bn_loop", "bn_send", "bn_gen", "bn_send2", "msg_sleep"}
\* the target's processing ran to its end
BatchDone == pc \in {"target_sleep", "target", "interval_sleep", "cycle", "fetching",
                     "idle_sleep"}

IsPrefix(s, t) == Len(s) <= Len(t) /\ \A i \in 1..Len(s) : s[i] = t[i]

\* index of the first record of l whose id is b, 0 if there is none
FirstIndex(l, b) ==
    IF \E i \in DOMAIN l : l[i].sha = b
    THEN CHOOSE i \in DOMAIN l : l[i].sha = b /\ \A j \in 1..(i - 1) : l[j].sha # b
    ELSE 0

\* the ids of the records of l before index k, oldest (last) first
OldestFirst(l, k) == [i \in 1..(k - 1) |-> l[k - i].sha]

\* C2: first-sight silence.  When the key had no entry and the fetch returned
\* a non-empty list, nothing of the list is dispatched and the entry becomes
\* the id of the first fetched record.
FirstSightSilence ==
    (NonEmptyFetch /\ ~Had /\ Processed) =>
        /\ dispatched = <<>>
        /\ ~Delivering
        /\ batch.key \in DOMAIN repo_states
        /\ repo_states[batch.key] = Fetched[1].sha

FirstSightWitness ==
    /\ NonEmptyFetch /\ ~Had
    /\ Len(Fetched) >= 2
    /\ pc = "target_sleep"
    /\ repo_states[batch.key] = Fetched[1].sha

\* C3: ordering of a diff.  When the stored baseline first occurs at a later
\* position k of the fetched list, the records before k are dispatched oldest
\* first, nothing else is, and the entry becomes the id of the first record.
OrderingOfDiff ==
    (NonEmptyFetch /\ Had /\ Processed) =>
        LET k == FirstIndex(Fetched, Last)
        IN  k > 1 =>
              /\ repo_states[batch.key] = Fetched[1].sha
              /\ IsPrefix(dispatched, OldestFirst(Fetched, k))
              /\ BatchDone => dispatched = OldestFirst(Fetched, k)

OrderingWitness ==
    /\ NonEmptyFetch /\ Had
    /\ FirstIndex(Fetched, Last) = 3
    /\ pc = "target_sleep"
    /\ dispatched = <<Fetched[2].sha, Fetched[1].sha>>

\* C5: lost-baseline fallback.  When no fetched record has the stored id, the
\* whole list is dispatched oldest first and the entry becomes the newest id.
LostBaselineFallback ==
    (NonEmptyFetch /\ Had /\ Processed) =>
        (FirstIndex(Fetched, Last) = 0 =>
              /\ repo_states[batch.key] = Fetched[1].sha
              /\ IsPrefix(dispatched, OldestFirst(Fetched, Len(Fetched) + 1))
              /\ BatchDone => dispatched = OldestFirst(Fetched, Len(Fetched) + 1))

LostBaselineWitness ==
    /\ NonEmptyFetch /\ Had
    /\ FirstIndex(Fetched, Last) = 0
    /\ Len(Fetched) = 2
    /\ pc = "target_sleep"
    /\ dispatched = <<Fetched[2].sha, Fetched[1].sha>>

\* C6: an empty fetch is a no-op.  After None, an empty list or a non-list
\* body the whole mapping is what it was and nothing is dispatched.
EmptyFetchNoOp ==
    (~NonEmptyFetch /\ Processed) =>
        /\ repo_states = batch.before
        /\ dispatched = <<>>
        /\ ~Delivering

EmptyFetchWitness ==
    /\ batch.fetched.kind = "none"
    /\ Had
    /\ pc = "target"
    /\ repo_states = batch.before

\* C7: no-op stability.  Processing the same non-empty list again, right after
\* it was processed, dispatches nothing and leaves the mapping unchanged.
NoOpStability ==
    (batch.repeat /\ NonEmptyFetch /\ Processed) =>
        /\ repo_states = batch.before
        /\ dispatched = <<>>
        /\ ~Delivering

NoOpWitness ==
    /\ batch.repeat /\ NonEmptyFetch
    /\ Len(Fetched) >= 2
    /\ announced # {}
    /\ pc = "target_sleep"

\* what the diff of the last fetch is expected to dispatch, oldest first
ExpectedNew ==
    LET k == FirstIndex(Fetched, Last)
    IN  OldestFirst(Fetched, IF k = 0 THEN Len(Fetched) + 1 ELSE k)

\* C9: the state update precedes delivery.  Wherever a delivery step of a
\* batch can run, and where a cancellation has cut a batch, the entry already
\* is the newest id of the batch's fetch, and what was dispatched of the batch
\* is a duplicate-free prefix of it: the rest is lost, not replayed.
StateBeforeDelivery ==
    (Delivering \/ (pc = "cancelled" /\ dispatched # <<>>)) =>
        /\ NonEmptyFetch /\ Had
        /\ repo_states[batch.key] = Fetched[1].sha
        /\ repo_states[batch.key] # Last
        /\ Injective(dispatched)
        /\ IsPrefix(dispatched, ExpectedNew)

CancelledInBatchWitness ==
    /\ pc = "cancelled"
    /\ Len(dispatched) = 1
    /\ Len(ExpectedNew) >= 2
    /\ Len(notif) = 2
    /\ repo_states[batch.key] = Fetched[1].sha

(***************************************************************************)
(* Properties over an append-only branch (SpecHist): revision ids are the  *)
(* positions in the history, so a greater id is a newer revision.          *)
(***************************************************************************)
\* the step is a call of broadcast_notification
BroadcastStep == Len(dispatched') = Len(dispatched) + 1
\* the step hands the base message for subscriber entry j to send_api
BaseCallStep(j) ==
    /\ Len(notif') = Len(notif) + 1
    /\ notif'[Len(notif')] = Event("base", j, "call")

\* C1: no duplicate notifications.  No revision of a key is passed to
\* broadcast_notification twice, and no base message for a (key, revision) is
\* handed to send_api twice for one subscriber entry, whatever became of the
\* earlier delivery.
NoDuplicateNotification ==
    [][/\ BroadcastStep =>
            <<batch.key, dispatched'[Len(dispatched')]>> \notin announced
       /\ \A j \in DOMAIN subscribers :
            BaseCallStep(j) =>
                <<batch.key, dispatched[Len(dispatched)], j>> \notin sent]_vars

\* a base send is in flight for subscriber entry 3, after an earlier batch
\* announced revision s, which entry 2 (no stream) never got and entry 3 did
LaterBatchWitness ==
    /\ pc = "bn_send"
    /\ sub = 3
    /\ notif[1] = Event("resolve", 2, "notfound")
    /\ \E s \in 1..MaxHead :
          /\ <<batch.key, s>> \in announced
          /\ s <= Last
          /\ <<batch.key, s, 2>> \notin sent
          /\ <<batch.key, s, 3>> \in sent
    /\ top[batch.key] > Last + 1
    /\ Len(Fetched) = 1

\* C8: baseline invariant.  An entry is only ever written with the id at
\* index 0 of the non-empty list just fetched for its key, and a write never
\* replaces an id by an older one.
BaselineNeverRegresses ==
    [][\A k \in DOMAIN repo_states' :
          (k \notin DOMAIN repo_states \/ repo_states'[k] # repo_states[k]) =>
              /\ k = batch.key
              /\ NonEmptyFetch
              /\ repo_states'[k] = Fetched[1].sha
              /\ k \in DOMAIN repo_states => repo_states'[k] > repo_states[k]]_vars

BaselineAdvancedWitness ==
    /\ pc = "notify"
    /\ Had
    /\ Len(Fetched) >= 2
    /\ first[batch.key] < Last
    /\ Last < repo_states[batch.key]
    /\ repo_states[batch.key] = top[batch.key]

(***************************************************************************)
(* SpecE2E: one target whose successful fetches always still contain the   *)
(* stored baseline (the window is long enough for what was pushed).        *)
(***************************************************************************)
Covers(resp, key) ==
    (resp.status = "200" /\ resp.body.items # <<>> /\ key \in DOMAIN repo_states)
        => \E i \in DOMAIN resp.body.items : resp.body.items[i].sha = repo_states[key]

\* line 195: the answer for the requested branch, reaching back to the baseline
ReceiveCovering ==
    /\ pc = "fetching"
    /\ \E resp \in WindowResponses(head[repo_key]) :
          Covers(resp, repo_key) /\ Receive(resp)

NextE2E ==
    \/ Loop
    \/ Deliver
    \/ ReceiveCovering
    \/ \E k \in Polled : Push(k)

E2EConfigs ==
    [repositories : {<<>>, <<NoOwner, T1>>},
     subscribers : {<<NoGroup, G2, G1>>},
     global_enable_commentary : {TRUE},
     monitor_enable_commentary : {"unset"},
     interval : {60},
     token : {""}]

InitE2E ==
    /\ InitTask
    /\ config \in E2EConfigs
    /\ chat \in HistChats
    /\ head = [k \in Keys |-> 0]

SpecE2E == InitE2E /\ [][NextE2E]_vars

\* subscriber entry j of the configuration has a group_id and a stream
Resolvable(j) ==
    /\ config.subscribers[j].group_id # ""
    /\ config.subscribers[j].group_id \in chat.streams

\* the revisions of key k whose base message was handed to send_api for entry j
SentTo(k, j) == {t[2] : t \in {u \in sent : u[1] = k /\ u[3] = j}}

CycleEnd == pc \in {"interval_sleep", "cycle"}

\* C4: end to end.  At the end of every cycle the entry is the newest id of
\* the last non-empty fetch and every resolvable subscriber entry has been sent
\* exactly the revisions after the first-sight one up to the entry; and every
\* base message sent to an entry is for a newer revision than all sent to it
\* before (so each is sent once, in chronological order over the whole run).
EndToEnd ==
    /\ [](CycleEnd =>
            \A k \in DOMAIN repo_states :
               /\ repo_states[k] = top[k]
               /\ \A j \in DOMAIN config.subscribers :
                     Resolvable(j) => SentTo(k, j) = (first[k] + 1)..repo_states[k])
    /\ [][\A j \in DOMAIN subscribers :
            BaseCallStep(j) =>
                \A t \in sent :
                    (t[1] = batch.key /\ t[3] = j) => t[2] < dispatched[Len(dispatched)]]_vars

\* two cycles have notified: the first-sight revision 1 was followed by a
\* batch up to 2 and then by a batch of two, all sent to entry 3
EndToEndWitness ==
    /\ pc = "interval_sleep"
    /\ Had
    /\ first[batch.key] = 1
    /\ Last = 2
    /\ dispatched = <<3, 4>>
    /\ SentTo(batch.key, 3) = {2, 3, 4}
    /\ repo_states[batch.key] = 4

(***************************************************************************)
(* SpecNotify: the dispatcher under every combination of destinations that *)
(* resolve or not, sends that return or raise, and commentary outcomes;    *)
(* the fetches are windows of short histories.                             *)
(***************************************************************************)
NotifyResponses ==
    FailedResponses
      \cup UNION {{[status |-> "200", body |-> ListValue(Window(h, w))] : w \in 1..h} :
                     h \in 1..MaxRevs}

\* three destinations of which any may have no stream, no commentary
PlainSetups ==
    [repositories : {<<T1>>},
     subscribers : {<<G1, G2, G3>>},
     global_enable_commentary : {FALSE},
     monitor_enable_commentary : {"false"},
     interval : {60},
     token : {""}]
    \X [streams : SUBSET {"g1", "g2", "g3"},
        send : {{"ok", "raise"}},
        generate : {{"text"}}]

\* commentary, with an entry without group_id between two destinations
CommentarySetups ==
    [repositories : {<<NoOwner, T1>>},
     subscribers : {<<G1, NoGroup, G3>>},
     global_enable_commentary : BOOLEAN,
     monitor_enable_commentary : {"unset"},
     interval : {60},
     token : {""}]
    \X [streams : {{"g1", "g3"}, {"g3"}},
        send : {{"ok", "raise"}},
        generate : {{"text", "empty", "failed", "raise"}}]

\* nothing to poll, nobody to notify
IdleSetups ==
    [repositories : {<<>>, <<T1>>},
     subscribers : {<<>>},
     global_enable_commentary : {TRUE},
     monitor_enable_commentary : {"unset"},
     interval : {60},
     token : {""}]
    \X [streams : {{}}, send : {{"ok"}}, generate : {{"text"}}]

InitNotify ==
    /\ InitTask
    /\ \E setup \in PlainSetups \cup CommentarySetups \cup IdleSetups :
          config = setup[1] /\ chat = setup[2]
    /\ head = [k \in Keys |-> 0]

NextNotify ==
    \/ Loop
    \/ Deliver
    \/ \E resp \in NotifyResponses : Receive(resp)

SpecNotify == InitNotify /\ [][NextNotify]_vars

\* the subscriber entries from j on that have a group_id and a stream, in list order
RECURSIVE ResolvableFrom(_)
ResolvableFrom(j) ==
    IF j > Len(config.subscribers)
    THEN <<>>
    ELSE (IF Resolvable(j) THEN <<j>> ELSE <<>>) \o ResolvableFrom(j + 1)

IsBaseCall(e) == e.kind = "base" /\ e.outcome = "call"
\* the entries the base message was handed to send_api for, in call order
BaseCalledFor == [i \in DOMAIN SelectSeq(notif, IsBaseCall) |-> SelectSeq(notif, IsBaseCall)[i].sub]

InBroadcast == pc \in {"bn_loop", "bn_send", "bn_gen", "bn_send2"}

\* C10: destination isolation.  Whatever sends raise and whatever streams are
\* missing, the base message is handed to send_api for every entry that has a
\* group_id and a stream, in list order; broadcast_notification returns (the
\* task does not end), and the whole batch is dispatched.
DestinationIsolation ==
    /\ pc # "crashed"
    /\ InBroadcast => IsPrefix(BaseCalledFor, ResolvableFrom(1))
    /\ pc = "msg_sleep" => BaseCalledFor = ResolvableFrom(1)
    /\ (pc = "target_sleep" /\ NonEmptyFetch /\ Had) => dispatched = ExpectedNew

\* the 2nd of three destinations raised, the 1st and the 3rd were served, and
\* the batch has another revision to go
IsolationWitness ==
    /\ pc = "msg_sleep"
    /\ notif = <<Event("base", 1, "call"), Event("base", 1, "ok"),
                 Event("base", 2, "call"), Event("base", 2, "raise"),
                 Event("base", 3, "call"), Event("base", 3, "ok")>>
    /\ item < Len(new_items)

(***************************************************************************)
(* Commentary (SpecNotify): the generator and the second message.          *)
(***************************************************************************)
IsGenerate(e, outcomes) == e.kind = "generate" /\ e.outcome \in outcomes
IsCommentary(e) == e.kind = "commentary"

\* C11: commentary non-interference.  The generator is called for an entry
\* only after the base message was handed to send_api for it; when the
\* generator fails, returns nothing or raises, no commentary goes to that
\* entry, the task does not end, and the base message is still handed over for
\* every later resolvable entry and every later revision of the batch.
CommentaryNonInterference ==
    /\ pc # "crashed"
    /\ \A i \in DOMAIN notif :
          /\ IsGenerate(notif[i], {"call"}) =>
                \E b \in 1..(i - 1) : notif[b] = Event("base", notif[i].sub, "call")
          /\ IsGenerate(notif[i], {"failed", "empty", "raise"}) =>
                /\ \A c \in DOMAIN notif :
                      IsCommentary(notif[c]) => notif[c].sub # notif[i].sub
                /\ InBroadcast => IsPrefix(BaseCalledFor, ResolvableFrom(1))
                /\ pc = "msg_sleep" => BaseCalledFor = ResolvableFrom(1)
    /\ (pc = "target_sleep" /\ NonEmptyFetch /\ Had /\ enable_ai) => dispatched = ExpectedNew

\* the generator raised for entry 1; entry 3 got the base message and a
\* commentary after it, and the batch has another revision to go
GeneratorRaisedWitness ==
    /\ pc = "msg_sleep"
    /\ notif = <<Event("base", 1, "call"), Event("base", 1, "ok"),
                 Event("generate", 1, "call"), Event("generate", 1, "raise"),
                 Event("base", 3, "call"), Event("base", 3, "ok"),
                 Event("generate", 3, "call"), Event("generate", 3, "text"),
                 Event("commentary", 3, "call"), Event("commentary", 3, "ok")>>
    /\ item < Len(new_items)

\* C12: commentary gating.  In a notification performed while
\* global.enable_commentary is false the generator is not called and no
\* commentary message is sent.
CommentaryGating ==
    ~config.global_enable_commentary =>
        \A i \in DOMAIN notif : notif[i].kind \notin {"generate", "commentary"}

\* C19: commentary is a second message.  A commentary is handed to send_api
\* for an entry only after the base message of the same notification was
\* delivered to that entry (its send returned).
CommentaryAfterBase ==
    \A i \in DOMAIN notif :
        notif[i] = Event("commentary", notif[i].sub, "call") =>
            \E b \in 1..(i - 1) : notif[b] = Event("base", notif[i].sub, "ok")

(***************************************************************************)
(* Steps of the task as action properties: what a step that passes over an *)
(* entry, or finishes a target, must have done.                            *)
(***************************************************************************)
\* the step adds the event e to the notification under way
Adds(e) == \E i \in DOMAIN notif' : i > Len(notif) /\ notif'[i] = e

\* the step writes a log entry that names the group of subscriber entry j
LogsGroup(j) == \E l \in logged' : l.about = subscribers[j].group_id

\* C15: no silent drop of a delivery.  A step that passes over a subscriber
\* entry without a send (no group_id, no stream), and a step in which the base
\* send raises, writes a log entry naming that entry's group.
NoSilentDrop ==
    [][/\ (pc = "bn_loop" /\ sub' = sub + 1) => LogsGroup(sub)
       /\ (pc = "bn_send" /\ Adds(Event("base", sub, "raise"))) => LogsGroup(sub)]_vars

ValidTarget(conf) == conf.owner # "" /\ conf.repo # ""

\* C16: misconfigured target.  The step of the task at a repository entry
\* without owner or repo issues no fetch, leaves repo_states as it is, writes a
\* log entry and moves on to the next entry of the list.
MisconfiguredTarget ==
    [][(/\ pc = "target"
        /\ idx <= Len(repos)
        /\ ~ValidTarget(repos[idx])
        /\ <<pc, idx>>' # <<pc, idx>>) =>
            /\ pc' = "target"
            /\ idx' = idx + 1
            /\ repo_states' = repo_states
            /\ logged' # {}]_vars

\* C14: inter-target pacing.  A target for which a fetch was issued is left
\* for a later target of the cycle only by the end of the pacing sleep,
\* whatever the fetch returned.
PacingBetweenFetches ==
    [][(/\ pc # "target"
        /\ idx' = idx + 1
        /\ \E j \in (idx + 1)..Len(repos) : ValidTarget(repos[j])) =>
            pc = "target_sleep"]_vars

(***************************************************************************)
(* SpecFaults: every error class at once.  Fetches fail, answer a body     *)
(* that is no list, or a list whose records may lack 'sha' or the          *)
(* commit.author.name / commit.message fields; a repository entry has no   *)
(* owner; streams are missing, sends and the generator raise.  The task is *)
(* scheduled fairly: every sleep ends and every awaited call returns or    *)
(* raises, so a step of the task that is possible is eventually taken.     *)
(***************************************************************************)
\* records as the API may answer them: complete, without 'sha', without 'commit'
FaultRecords ==
    {Commit(i) : i \in 1..2}
      \cup {[sha |-> NoSha, commit |-> TRUE]}
      \cup {[sha |-> i, commit |-> FALSE] : i \in 1..2}

FaultLists == UNION {[1..n -> FaultRecords] : n \in 1..MaxFaultLen}

FaultResponses ==
    FailedResponses
      \cup {[status |-> "200", body |-> b] :
               b \in {NonListValue, ListValue(<<>>)} \cup {ListValue(l) : l \in FaultLists}}

FaultConfigs ==
    [repositories : {<<>>, <<NoOwner, T1>>},
     subscribers : {<<NoGroup, G2, G1>>},
     global_enable_commentary : {TRUE},
     monitor_enable_commentary : {"unset"},
     interval : {60},
     token : {""}]

FaultChats == [streams : {{"g1"}}, send : {{"ok", "raise"}}, generate : {{"text", "raise"}}]

InitFaults ==
    /\ InitTask
    /\ config \in FaultConfigs
    /\ chat \in FaultChats
    /\ head = [k \in Keys |-> 0]

NextFaults ==
    \/ Loop
    \/ Deliver
    \/ ShaKeyError
    \/ \E resp \in FaultResponses : Receive(resp)

\* a step of the task itself (anything but its cancellation from outside)
TaskStep == NextFaults /\ pc' # "cancelled"

SpecFaults == InitFaults /\ [][NextFaults]_vars /\ WF_vars(TaskStep)

\* C13: no error class is fatal.  Unless it is cancelled from outside, the
\* task starts another cycle again and again, whatever fails.
NoFatalError == []<>(pc = "cycle") \/ <>(pc = "cancelled")

(***************************************************************************)
(* Sequencing (SpecHist: two targets, three subscriber entries).           *)
(***************************************************************************)
\* the call recorded at position i of notif has returned or raised
Completed(i) ==
    /\ i < Len(notif)
    /\ notif[i + 1].kind = notif[i].kind
    /\ notif[i + 1].sub = notif[i].sub
    /\ notif[i + 1].outcome # "call"

\* C18: strictly sequential processing.  Every call of a notification has
\* ended before the next one starts, and the one that has not is the call
\* the task is suspended at; no call is open while a fetch is; a fetch is
\* issued only when the target before it is finished (its entry stored and
\* all its new revisions dispatched), and a revision is dispatched only when
\* the subscriber loop of the revision before it is exhausted.
StrictlySequential ==
    /\ [](/\ \A i \in DOMAIN notif :
                notif[i].outcome = "call" =>
                    \/ Completed(i)
                    \/ i = Len(notif) /\ pc \in {"bn_send", "bn_gen", "bn_send2", "cancelled"}
          /\ pc = "fetching" => notif = <<>>)
    /\ [][/\ (pc = "target" /\ pc' = "fetching") =>
                /\ NonEmptyFetch => repo_states[batch.key] = Fetched[1].sha
                /\ (NonEmptyFetch /\ Had) => dispatched = ExpectedNew
          /\ BroadcastStep =>
                /\ pc = "notify"
                /\ sub > Len(subscribers) \/ dispatched = <<>>]_vars

\* the fetch of the second target is under way after the first target's
\* batch of two revisions was dispatched
SecondTargetWitness ==
    /\ pc = "fetching"
    /\ idx = 3
    /\ repo_key = RepoKey(T2)
    /\ batch.key = RepoKey(T1)
    /\ Len(dispatched) = 2
    /\ \A s \in {dispatched[1], dispatched[2]} : <<batch.key, s, 3>> \in sent

(***************************************************************************)
(* SpecReload: the configuration is edited while the task runs.  Targets   *)
(* are added and removed, the interval and the token change, at any        *)
(* moment; the branches are append-only histories as in SpecHist.          *)
(***************************************************************************)
\* the configuration store is changed to c (get_config reads it live)
Reconfigure(c) ==
    /\ c # config
    /\ config' = c
    /\ UNCHANGED <<pc, chat, head, repo_states, loopVars, bnVars, histVars, logged>>

ReloadConfigs ==
    {[repositories |-> r,
      subscribers |-> <<NoGroup, G2, G1>>,
      global_enable_commentary |-> TRUE,
      monitor_enable_commentary |-> "unset",
      interval |-> st[1],
      token |-> st[2]] :
        r \in {<<>>, <<T1>>, <<NoOwner, T1, T2>>}, st \in {<<60, "">>}}
    \cup
    {[repositories |-> <<NoOwner, T1, T2>>,
      subscribers |-> <<NoGroup, G2, G1>>,
      global_enable_commentary |-> TRUE,
      monitor_enable_commentary |-> "unset",
      interval |-> 30,
      token |-> "t"]}

\* a commit is pushed to a branch, configured at the moment or not
PushReload(k) == head[k] < MaxReloadHead /\ Push(k)

InitReload ==
    /\ InitTask
    /\ config \in ReloadConfigs
    /\ chat = [streams |-> {"g1"}, send |-> {"ok"}, generate |-> {"text"}]
    /\ head = [k \in Keys |-> 0]

NextReload ==
    \/ Loop
    \/ Deliver
    \/ ReceiveWindow
    \/ \E k \in Keys : PushReload(k)
    \/ \E c \in ReloadConfigs : Reconfigure(c)

SpecReload == InitReload /\ [][NextReload]_vars

\* the keys of the valid entries of a repository list
KeysOf(list) == {RepoKey(list[i]) : i \in {j \in DOMAIN list : ValidTarget(list[j])}}

\* C17: hot reload per cycle.  The list, interval and token a cycle works
\* with are those the configuration held when the cycle started, whatever is
\* edited meanwhile: the request carries that token, the interval and
\* stand-by sleeps last that interval, only keys of that list are requested
\* (none of a removed target) and at the end of the cycle all of them were
\* (those of added targets too); a key without an entry is first-sight
\* silent; an empty list gives a cycle without request and delivery, which
\* sleeps one interval and reads the configuration again.
HotReload ==
    /\ [](/\ repos = read.repositories /\ interval = read.interval /\ token = read.token
          /\ pc = "fetching" =>
                /\ RequestSent.authorization = read.token
                /\ RequestSent.key \in KeysOf(read.repositories)
          /\ pc \in {"idle_sleep", "interval_sleep"} => SleepSeconds = read.interval
          /\ read.requested \subseteq KeysOf(read.repositories)
          /\ pc = "interval_sleep" => read.requested = KeysOf(read.repositories)
          /\ pc = "idle_sleep" => read.repositories = <<>> /\ read.requested = {}
          /\ FirstSightSilence)
    /\ [][/\ (pc = "cycle" /\ pc' # "cycle") =>
                /\ repos' = config.repositories
                /\ interval' = config.interval
                /\ token' = config.token
                /\ pc' = IF config.repositories = <<>> THEN "idle_sleep" ELSE "target"
                /\ UNCHANGED <<announced, sent>>
          /\ (pc = "idle_sleep" /\ pc' \notin {"idle_sleep", "cancelled"}) =>
                /\ pc' = "cycle"
                /\ UNCHANGED <<announced, sent, read>>]_vars

\* the first sight of a target that the previous cycle's list did not have,
\* in a cycle whose interval is no longer the configured one
AddedTargetWitness ==
    /\ pc = "target_sleep"
    /\ batch.key = RepoKey(T2)
    /\ NonEmptyFetch /\ ~Had
    /\ read.before = <<T1>>
    /\ read.requested = {RepoKey(T1), RepoKey(T2)}
    /\ SleepSeconds = 1
    /\ read.interval = 30 /\ config.interval = 60
    /\ repo_states[RepoKey(T2)] = Fetched[1].sha

\* C17 as stated: as above, and every target that the list of the cycle
\* before did not have is first-sight silent in the cycle that first has it
\* (nothing is dispatched for it).
HotReloadAddedSilent ==
    HotReload /\ [](Delivering => batch.key \in KeysOf(read.before))

\* C20: frame of the tracker state.  A step that changes repo_states is a step
\* of the diff of the target being processed; it changes only the entry of
\* that target's key and removes none.  (Fetches, deliveries, commentary,
\* sleeps and edits of the configuration are not such steps.)
FrameOfState ==
    [][repo_states' # repo_states =>
          /\ pc = "diff"
          /\ repo_key = RepoKey(repos[idx])
          /\ config' = config
          /\ DOMAIN repo_states' = DOMAIN repo_states \cup {repo_key}
          /\ \A k \in DOMAIN repo_states : k # repo_key => repo_states'[k] = repo_states[k]]_vars

\* the entry of a removed target is still there, unchanged, after a later
\* cycle without it updated the entry of the other target
RemovedKeptWitness ==
    /\ pc = "notify"
    /\ batch.key = RepoKey(T1)
    /\ read.repositories = <<T1>>
    /\ RepoKey(T2) \in DOMAIN batch.before
    /\ repo_states[RepoKey(T2)] = batch.before[RepoKey(T2)]
    /\ repo_states[RepoKey(T1)] # batch.before[RepoKey(T1)]
====
